---- MODULE Spec2Model ----
(***************************************************************************)
(* Model of qso_logger.py: the QSO form (QSOLogger), its validators        *)
(* (QSOValidator), the ADIF encoder and UDP transmitter, and the QRZ       *)
(* directory lookup worker (QRZLookupThread) with the debounce timer that  *)
(* starts it.                                                              *)
(*                                                                         *)
(* Texts are sequences of one-character strings, so that upper(), strip(), *)
(* len() and the regular expression are computed and not assumed.          *)
(* Time is counted in milliseconds and advances in steps of TickMs.        *)
(***************************************************************************)
EXTENDS Integers, Sequences, FiniteSets, TLC

\* ------------------------------------------------------------------------
\* Bounds of the model
\* ------------------------------------------------------------------------
MaxThreads == 2      \* QRZLookupThread objects created in one behaviour
MaxSends == 2        \* datagram attempts made in one behaviour
MaxCallLen == 4      \* length of the generated call texts
MaxFreqLen == 3      \* length of the generated frequency texts

\* ------------------------------------------------------------------------
\* Characters and texts
\* ------------------------------------------------------------------------
NoneVal == "None"

LowerSeq == <<"a","b","c","d","e","f","g","h","i","j","k","l","m",
              "n","o","p","q","r","s","t","u","v","w","x","y","z">>
UpperSeq == <<"A","B","C","D","E","F","G","H","I","J","K","L","M",
              "N","O","P","Q","R","S","T","U","V","W","X","Y","Z">>
DigitSeq == <<"0","1","2","3","4","5","6","7","8","9">>

Range(s) == {s[i] : i \in DOMAIN s}

IsUpperLetter(c) == c \in Range(UpperSeq)
IsDigit(c) == c \in Range(DigitSeq)
IsSpace(c) == c \in {" ", "\t", "\n"}

DigitVal(c) == (CHOOSE i \in DOMAIN DigitSeq : DigitSeq[i] = c) - 1

\* str.upper() on one character
UpperChar(c) ==
    IF c \in Range(LowerSeq)
    THEN UpperSeq[CHOOSE i \in DOMAIN LowerSeq : LowerSeq[i] = c]
    ELSE c

\* str.upper()
Upper(s) == [i \in DOMAIN s |-> UpperChar(s[i])]

\* str.lower()
Lower(s) ==
    [i \in DOMAIN s |->
        IF s[i] \in Range(UpperSeq)
        THEN LowerSeq[CHOOSE k \in DOMAIN UpperSeq : UpperSeq[k] = s[i]]
        ELSE s[i]]

\* str.strip(): drop leading and trailing whitespace
RECURSIVE LStrip(_)
LStrip(s) ==
    IF s # <<>> /\ IsSpace(Head(s)) THEN LStrip(Tail(s)) ELSE s

RECURSIVE RStrip(_)
RStrip(s) ==
    IF s # <<>> /\ IsSpace(s[Len(s)])
    THEN RStrip(SubSeq(s, 1, Len(s) - 1))
    ELSE s

Strip(s) == RStrip(LStrip(s))

\* str(n) for a natural number
RECURSIVE NatToStr(_)
NatToStr(n) ==
    IF n < 10 THEN <<DigitSeq[n + 1]>>
    ELSE NatToStr(n \div 10) \o <<DigitSeq[(n % 10) + 1]>>

\* ------------------------------------------------------------------------
\* QSOValidator
\* ------------------------------------------------------------------------
\* re.match(r'^[A-Z0-9]{1,3}[0-9][A-Z0-9]{0,3}[A-Z]$', s)
MatchCallPattern(s) ==
    \E a \in 1..3 : \E b \in 0..3 :
        /\ Len(s) = a + 1 + b + 1
        /\ \A i \in 1..a : IsUpperLetter(s[i]) \/ IsDigit(s[i])
        /\ IsDigit(s[a + 1])
        /\ \A i \in (a + 2)..(a + 1 + b) : IsUpperLetter(s[i]) \/ IsDigit(s[i])
        /\ IsUpperLetter(s[Len(s)])

\* validate_callsign without call.upper()
validate_callsign_NoUpper(call) == MatchCallPattern(Strip(call))

\* QSOValidator.validate_callsign
validate_callsign(call) == MatchCallPattern(Strip(Upper(call)))

\* str.isdigit() on one character: the decimal digits of every script,
\* here ASCII and ARABIC-INDIC DIGIT FIVE, and the other digit characters,
\* here SUPERSCRIPT TWO
IsDecimalChar(c) == IsDigit(c) \/ c = "U+0665"
IsDigitChar(c) == IsDecimalChar(c) \/ c = "U+00B2"

DecimalVal(c) == IF c = "U+0665" THEN 5 ELSE DigitVal(c)

\* A non-negative decimal number: ip the digits before the point without
\* leading zeros, fp the digits after it without trailing zeros.
RECURSIVE DropLeadingZeros(_)
DropLeadingZeros(d) ==
    IF d # <<>> /\ Head(d) = 0 THEN DropLeadingZeros(Tail(d)) ELSE d

RECURSIVE DropTrailingZeros(_)
DropTrailingZeros(d) ==
    IF d # <<>> /\ d[Len(d)] = 0
    THEN DropTrailingZeros(SubSeq(d, 1, Len(d) - 1))
    ELSE d

Zeros(n) == [i \in 1..n |-> 0]

\* the number with digits d, the point after the first k of them
Decimal(d, k) ==
    LET e == IF k <= 0 THEN Zeros(0 - k) \o d
             ELSE IF k >= Len(d) THEN d \o Zeros(k - Len(d))
             ELSE d
        n == IF k <= 0 THEN 0 ELSE IF k >= Len(d) THEN Len(e) ELSE k
    IN  [ip |-> DropLeadingZeros(SubSeq(e, 1, n)),
         fp |-> DropTrailingZeros(SubSeq(e, n + 1, Len(e)))]

\* a <= b for two such numbers
DecLE(a, b) ==
    LET n == IF Len(a.fp) > Len(b.fp) THEN Len(a.fp) ELSE Len(b.fp)
        x == a.ip \o a.fp \o Zeros(n - Len(a.fp))
        y == b.ip \o b.fp \o Zeros(n - Len(b.fp))
    IN  \/ Len(a.ip) < Len(b.ip)
        \/ /\ Len(a.ip) = Len(b.ip)
           /\ \/ x = y
              \/ \E i \in DOMAIN x :
                    /\ x[i] < y[i]
                    /\ \A j \in 1..(i - 1) : x[j] = y[j]

\* value of a short sequence of digits
RECURSIVE DigitsVal(_)
DigitsVal(d) ==
    IF d = <<>> THEN 0
    ELSE 10 * DigitsVal(SubSeq(d, 1, Len(d) - 1)) + d[Len(d)]

\* float(freq) on a str.  Surrounding whitespace is ignored; then come an
\* optional sign and either inf, infinity or nan in any case, or digits
\* with at most one point and at least one digit, and an optional exponent
\* of e or E, an optional sign and digits.  A digit is a decimal digit of
\* any script, and single underscores may stand between digits.  ok is
\* FALSE where float() raises ValueError; otherwise kind tells a number
\* from inf and nan, and val is the absolute value written in the text.
ParseFloat(freq) ==
    LET t == Strip(freq)
        signed == t # <<>> /\ t[1] \in {"+", "-"}
        neg == t # <<>> /\ t[1] = "-"
        u == IF signed THEN Tail(t) ELSE t
        bad == [ok |-> FALSE, kind |-> "none", neg |-> FALSE,
                val |-> Decimal(<<>>, 0)]
        under == \A i \in DOMAIN u :
                    u[i] = "_" => /\ 1 < i /\ i < Len(u)
                                  /\ IsDecimalChar(u[i - 1])
                                  /\ IsDecimalChar(u[i + 1])
        w == SelectSeq(u, LAMBDA c : c # "_")
        es == {i \in DOMAIN w : w[i] \in {"e", "E"}}
        ePos == IF es = {} THEN Len(w) + 1 ELSE CHOOSE i \in es : TRUE
        m == SubSeq(w, 1, ePos - 1)
        x == SubSeq(w, ePos + 1, Len(w))
        xneg == x # <<>> /\ x[1] = "-"
        xd == IF x # <<>> /\ x[1] \in {"+", "-"} THEN Tail(x) ELSE x
        dots == {i \in DOMAIN m : m[i] = "."}
        k == IF dots = {} THEN Len(m) ELSE (CHOOSE i \in dots : TRUE) - 1
        d == SelectSeq(m, LAMBDA c : c # ".")
        digits(q) == [i \in DOMAIN q |-> DecimalVal(q[i])]
        exp == IF es = {} THEN 0
               ELSE IF xneg THEN 0 - DigitsVal(digits(xd))
               ELSE DigitsVal(digits(xd))
    IN  IF Lower(u) \in {<<"n","a","n">>}
        THEN [ok |-> TRUE, kind |-> "nan", neg |-> neg, val |-> Decimal(<<>>, 0)]
        ELSE IF Lower(u) \in {<<"i","n","f">>,
                              <<"i","n","f","i","n","i","t","y">>}
        THEN [ok |-> TRUE, kind |-> "inf", neg |-> neg, val |-> Decimal(<<>>, 0)]
        ELSE IF /\ under
                /\ Cardinality(es) <= 1
                /\ Cardinality(dots) <= 1
                /\ d # <<>> /\ \A i \in DOMAIN d : IsDecimalChar(d[i])
                /\ es # {} => (xd # <<>> /\ \A i \in DOMAIN xd : IsDecimalChar(xd[i]))
        THEN [ok |-> TRUE, kind |-> "num", neg |-> neg,
              val |-> Decimal(digits(d), k + exp)]
        ELSE bad

\* float() gives the double nearest to the value written, a tie going to
\* the double with an even mantissa.  The literal 0.1 is the double
\* 0x3FB999999999999A and 300000 is a double, both with even mantissas, so
\* the result is >= 0.1 exactly when the value written is at least halfway
\* between 0.1 and the double below it, and <= 300000 exactly when the
\* value written is at most halfway between 300000 and the double above.
HalfwayBelowTenth ==
    [ip |-> <<>>,
     fp |-> <<0,9,9,9,9,9,9,9,9,9,9,9,9,9,9,9,9,8,6,1,2,2,2,1,2,1,9,2,1,
              8,5,5,4,3,2,4,4,7,0,4,6,0,4,1,4,8,8,6,4,7,4,6,0,9,3,7,5>>]
HalfwayAbove300000 ==
    [ip |-> <<3,0,0,0,0,0>>,
     fp |-> <<0,0,0,0,0,0,0,0,0,0,2,9,1,0,3,8,3,0,4,5,6,7,3,3,7,0,3,6,1,
              3,2,8,1,2,5>>]

\* validate_frequency that compares the value as written
validate_frequency_Exact(freq) ==
    LET p == ParseFloat(freq)
    IN  /\ p.ok /\ p.kind = "num" /\ ~p.neg
        /\ DecLE(Decimal(<<1>>, 0), p.val)
        /\ DecLE(p.val, Decimal(<<3,0,0,0,0,0>>, 6))

\* QSOValidator.validate_frequency: 0.1 <= float(freq) <= 300000, False on
\* ValueError; nan compares False and so do inf and every negative value
validate_frequency(freq) ==
    LET p == ParseFloat(freq)
    IN  /\ p.ok /\ p.kind = "num" /\ ~p.neg
        /\ DecLE(HalfwayBelowTenth, p.val)
        /\ DecLE(p.val, HalfwayAbove300000)

\* str.isdigit(): at least one character and every character a digit
isdigit(s) == s # <<>> /\ \A i \in DOMAIN s : IsDigitChar(s[i])

\* int(s) on a text that passed isdigit(): the value of decimal digits
RECURSIVE IntVal(_)
IntVal(s) ==
    IF s = <<>> THEN 0
    ELSE 10 * IntVal(SubSeq(s, 1, Len(s) - 1)) + DecimalVal(s[Len(s)])

\* QSOValidator.validate_rst: rst.isdigit() and 11 <= int(rst) <= 59.
\* int() raises ValueError on a digit character that is not a decimal
\* digit, and nothing catches it.
validate_rst(rst) ==
    IF ~isdigit(rst) THEN "False"
    ELSE IF \E i \in DOMAIN rst : ~IsDecimalChar(rst[i]) THEN "ValueError"
    ELSE IF 11 <= IntVal(rst) /\ IntVal(rst) <= 59 THEN "True"
    ELSE "False"

\* ------------------------------------------------------------------------
\* Record encoder and transmitter
\* ------------------------------------------------------------------------
\* a field whose length counts the bytes of the encoded value: the
\* characters outside ASCII of the texts used here take two bytes
AdifField_Bytes(tag, value) ==
    LET wide == {i \in DOMAIN value :
                    value[i] \in {"U+00E9", "U+00B2", "U+0665"}}
    IN  <<"<">> \o tag \o <<":">>
        \o NatToStr(Len(value) + Cardinality(wide)) \o <<">">> \o value

\* one field of the record: f"<TAG:{len(value)}>{value}"
AdifField(tag, value) ==
    <<"<">> \o tag \o <<":">> \o NatToStr(Len(value)) \o <<">">> \o value

\* QSOLogger.create_adif_entry; QSO_DATE and TIME_ON carry the literal
\* lengths 8 and 6
create_adif_entry(q) ==
    AdifField(<<"C","A","L","L">>, q.call)
    \o <<"<","Q","S","O","_","D","A","T","E",":","8",">">> \o q.date
    \o <<"<","T","I","M","E","_","O","N",":","6",">">> \o q.time
    \o AdifField(<<"B","A","N","D">>, q.band)
    \o AdifField(<<"F","R","E","Q">>, q.freq)
    \o AdifField(<<"M","O","D","E">>, q.mode)
    \o AdifField(<<"R","S","T","_","S","E","N","T">>, q.rst_sent)
    \o AdifField(<<"R","S","T","_","R","C","V","D">>, q.rst_recv)
    \o <<"<","E","O","R",">">>

\* str.encode('utf-8'): an ASCII character is one byte; U+00E9, U+00B2 and
\* U+0665 are two bytes each
Utf8Char(c) ==
    CASE c = "U+00E9" -> <<"0xC3", "0xA9">>
      [] c = "U+00B2" -> <<"0xC2", "0xB2">>
      [] c = "U+0665" -> <<"0xD9", "0xA5">>
      [] OTHER -> <<c>>

RECURSIVE Utf8(_)
Utf8(s) ==
    IF Len(s) = 0 THEN <<>>
    ELSE IF Len(s) = 1 THEN Utf8Char(s[1])
    ELSE LET h == Len(s) \div 2
         IN  Utf8(SubSeq(s, 1, h)) \o Utf8(SubSeq(s, h + 1, Len(s)))

\* ------------------------------------------------------------------------
\* Inputs
\* ------------------------------------------------------------------------
\* texts typed into call_input
CallTexts == { <<>>,
               <<"w","1","a","w"," ">>,
               <<"K","2","B">>,
               <<"H","E","L","L","O">>,
               <<"W","1">> }

\* texts typed into freq_input
FreqTexts == { <<>>, <<"1","4",".","0","7","4">>, <<"0",".","0","5">>,
               <<"a","b","c">> }

\* band_select and mode_select are fixed lists; the report boxes are editable
Bands == { <<"2","0","m">>, <<"4","0","m">> }
Modes == { <<"F","T","8">>, <<"C","W">> }
RstTexts == { <<"5","9">>, <<>> }

\* datetime.utcnow() read by gather_qso_data
Clock == { [date |-> <<"2","0","2","4","0","1","3","1">>,
            time |-> <<"2","3","5","9","5","9">>] }

\* values of qrz_username / qrz_password typed into the settings dialog
CredTexts == { <<>>, <<"u">> }

\* texts typed into the Test QRZ Lookup dialog
TestTexts == { <<"n","0","c","a","l","l">> }

\* outcomes of socket.sendto
SendOutcomes == {"ok", "timeout", "error"}

\* lookup_timer.start(1500)
QuietPeriod == 1500
TickMs == QuietPeriod \div 3

\* ------------------------------------------------------------------------
\* State
\* ------------------------------------------------------------------------
VARIABLES
    call_input,            \* text of the call field
    freq_input,            \* text of the frequency field
    band_select, mode_select, rst_sent_input, rst_recv_input,
    log_button,            \* log_button.isEnabled()
    auto_lookup_checkbox, auto_clear_checkbox,
    config,                \* qrz_username, qrz_password, default_rst_*
    lookup_timer,          \* single-shot debounce timer
    since_change,          \* ms since call_input.textChanged, up to QuietPeriod
    threads,               \* QRZLookupThread objects by creation number
    nThreads,              \* number of QRZLookupThread objects created
    current_lookup_thread, \* 0 is None
    events,                \* queued lookup_complete / lookup_error emissions
    station_info_text, lookup_status_label, photo_label,
    display_src,           \* thread whose outcome the panel shows, 0 if none
    photo_replies,         \* QNetworkReply objects not yet finished: the
                           \* worker whose result named the picture and
                           \* the callsign in the input at the request
    waited,                \* a handler has blocked in QThread.wait()
    log_display,           \* Recent QSOs entries
    qso_logged,            \* emissions of the qso_logged signal
    dialog,                \* last QMessageBox shown by log_qso
    datagrams              \* sendto attempts: the entry, its record, the
                           \* bytes handed to sendto and the result

formVars == <<band_select, mode_select, rst_sent_input, rst_recv_input>>
optVars == <<auto_lookup_checkbox, auto_clear_checkbox, config>>
timeVars == <<lookup_timer, since_change>>
threadVars == <<threads, nThreads, current_lookup_thread, events>>
panelVars == <<station_info_text, lookup_status_label, photo_label,
               display_src, photo_replies>>
logVars == <<log_display, qso_logged, dialog, datagrams>>

vars == <<call_input, freq_input, log_button, formVars, optVars, timeVars,
          threadVars, panelVars, waited, logVars>>

\* no HTTP reply received yet
NoReply == [net |-> FALSE, status |-> -1, xml |-> FALSE, body |-> <<>>]

\* a QRZLookupThread: __init__ sets callsign and session_key = None.
\* pc is the position of run(): "auth" and "query" while the request to
\* the session or the query endpoint is outstanding; query_key is the key
\* put into the query URL; auth_response and query_response are the
\* replies received; emitted lists the signals run() has emitted.
NoThread == [pc |-> "unused", kind |-> "-", callsign |-> <<>>,
             session_key |-> NoneVal, query_key |-> NoneVal,
             auth_response |-> NoReply, query_response |-> NoReply,
             emitted |-> <<>>]

NewThread(callsign, kind) ==
    [NoThread EXCEPT !.pc = "auth", !.kind = kind,
                     !.callsign = Strip(Upper(callsign))]

\* QThread.isRunning()
isRunning(t) == t.pc \in {"auth", "query"}

PromptText == [kind |-> "prompt", data |-> <<>>]

\* QSOLogger.__init__ and init_ui, with the default configuration
Init ==
    /\ call_input = <<>>
    /\ freq_input = <<>>
    /\ band_select = <<"2","0","m">>
    /\ mode_select = <<"F","T","8">>
    /\ rst_sent_input = <<"5","9">>
    /\ rst_recv_input = <<"5","9">>
    /\ log_button = FALSE
    /\ auto_lookup_checkbox = TRUE
    /\ auto_clear_checkbox = TRUE
    /\ config = [qrz_username |-> <<>>, qrz_password |-> <<>>,
                 default_rst_sent |-> <<"5","9">>,
                 default_rst_recv |-> <<"5","9">>]
    /\ lookup_timer = [active |-> FALSE, left |-> 0]
    /\ since_change = QuietPeriod
    /\ threads = [i \in 1..MaxThreads |-> NoThread]
    /\ nThreads = 0
    /\ current_lookup_thread = 0
    /\ events = <<>>
    /\ station_info_text = PromptText
    /\ lookup_status_label = <<>>
    /\ photo_label = "No Photo"
    /\ display_src = 0
    /\ photo_replies = <<>>
    /\ waited = FALSE
    /\ log_display = <<>>
    /\ qso_logged = <<>>
    /\ dialog = "none"
    /\ datagrams = <<>>

\* ------------------------------------------------------------------------
\* QRZLookupThread
\* ------------------------------------------------------------------------
\* replies of the session endpoint: net is FALSE when requests.get raises,
\* xml is FALSE when the body is not well-formed, body lists the children
\* of the Session elements in document order (text NoneVal for an empty
\* element)
AuthReply(children) ==
    [net |-> TRUE, status |-> 200, xml |-> TRUE, body |-> children]

AuthOk == AuthReply(<<[tag |-> "Key", text |-> "k1"]>>)

AuthResponses == {
    [net |-> FALSE, status |-> 0, xml |-> TRUE, body |-> <<>>],
    [net |-> TRUE, status |-> 500, xml |-> TRUE, body |-> <<>>],
    [net |-> TRUE, status |-> 200, xml |-> FALSE, body |-> <<>>],
    AuthOk,
    AuthReply(<<[tag |-> "Message", text |-> "hello"],
                [tag |-> "Key", text |-> "k2"]>>),
    AuthReply(<<[tag |-> "Key", text |-> NoneVal]>>),
    AuthReply(<<[tag |-> "Error", text |-> "bad password"]>>),
    AuthReply(<<[tag |-> "Key", text |-> "k1"],
                [tag |-> "Error", text |-> "expired"]>>),
    AuthReply(<<[tag |-> "Message", text |-> "hello"]>>) }

\* replies of the query endpoint: body lists the children of the Callsign
\* elements in document order (text <<>> for an element without text)
QueryReply(fields) ==
    [net |-> TRUE, status |-> 200, xml |-> TRUE, body |-> fields]

QueryJo == QueryReply(<<[ns |-> "", name |-> "fname", text |-> <<" ","J","o">>],
                        [ns |-> "", name |-> "addr2", text |-> <<>>]>>)

QueryImage == QueryReply(<<[ns |-> "{qrz}", name |-> "image",
                            text |-> <<"u","r","l">>]>>)

QueryHttp500 == [net |-> TRUE, status |-> 500, xml |-> TRUE, body |-> <<>>]

\* replies that also list the Error and Message elements of the document
QueryReplyWith(fields, notes) ==
    [net |-> TRUE, status |-> 200, xml |-> TRUE, body |-> fields,
     notes |-> notes]

QueryNotFound ==
    QueryReplyWith(<<>>, <<[tag |-> "Error", text |-> <<"Not found: W1">>]>>)

QueryExpired ==
    QueryReplyWith(<<>>, <<[tag |-> "Message",
                            text |-> <<"subscription expired">>]>>)

\* two children with the same name, one of them in a namespace, and a
\* child whose text is whitespace
QueryTwice ==
    QueryReply(<<[ns |-> "", name |-> "call", text |-> <<"W","1">>],
                 [ns |-> "{qrz}", name |-> "call", text |-> <<"K","2"," ">>],
                 [ns |-> "", name |-> "addr2", text |-> <<" ">>],
                 [ns |-> "", name |-> "state", text |-> <<>>]>>)

QueryResponses == {
    [net |-> FALSE, status |-> 0, xml |-> TRUE, body |-> <<>>],
    QueryHttp500,
    [net |-> TRUE, status |-> 200, xml |-> FALSE, body |-> <<>>],
    QueryReply(<<>>),
    QueryJo,
    QueryImage }

\* the replies where the query step is examined
MoreQueryResponses ==
    QueryResponses \cup {QueryNotFound, QueryExpired, QueryTwice}

\* the loop over the children of the Session elements: the first Key
\* returns, the first Error raises, anything else is skipped
RECURSIVE ScanSession(_)
ScanSession(children) ==
    IF children = <<>>
    THEN [ret |-> "raise", key |-> NoneVal,
          reason |-> <<"No session key found in response">>]
    ELSE LET c == Head(children)
         IN  IF c.tag = "Key"
             THEN [ret |-> "True", key |-> c.text, reason |-> <<>>]
             ELSE IF c.tag = "Error"
             THEN [ret |-> "raise", key |-> NoneVal,
                   reason |-> <<"QRZ Auth Error", c.text>>]
             ELSE ScanSession(Tail(children))

\* QRZLookupThread.get_session_key: what the try block does
SessionKeyTry(resp) ==
    IF ~resp.net
    THEN [ret |-> "RequestException", key |-> NoneVal, reason |-> <<>>]
    ELSE IF resp.status # 200
    THEN [ret |-> "raise", key |-> NoneVal,
          reason |-> <<"HTTP">> \o NatToStr(resp.status)]
    ELSE IF ~resp.xml
    THEN [ret |-> "ParseError", key |-> NoneVal, reason |-> <<>>]
    ELSE ScanSession(resp.body)

\* QRZLookupThread.get_session_key: the except clauses re-raise with a
\* prefix; Exceptions raised by the try block itself reach the last clause
get_session_key(resp) ==
    LET r == SessionKeyTry(resp)
    IN  CASE r.ret = "True" -> r
          [] r.ret = "ParseError" ->
                [r EXCEPT !.ret = "raise", !.reason = <<"XML parsing failed">>]
          [] r.ret = "RequestException" ->
                [r EXCEPT !.ret = "raise", !.reason = <<"Network error">>]
          [] OTHER ->
                [r EXCEPT !.reason = <<"Authentication failed">> \o r.reason]

\* a mapping that keeps the value a key already has
DictSet_KeepFirst(d, k, v) ==
    IF \E i \in DOMAIN d : d[i][1] = k THEN d ELSE Append(d, <<k, v>>)

\* data[tag_name] = child.text.strip(), keeping the position of a key
\* that is already present
DictSet(d, k, v) ==
    IF \E i \in DOMAIN d : d[i][1] = k
    THEN [i \in DOMAIN d |-> IF d[i][1] = k THEN <<k, v>> ELSE d[i]]
    ELSE Append(d, <<k, v>>)

\* tag_name = child.tag.split('}')[-1]
TagName(f) == f.name

RECURSIVE ParseFields(_, _)
ParseFields(fields, d) ==
    IF fields = <<>> THEN d
    ELSE LET f == Head(fields)
         IN  ParseFields(Tail(fields),
                         IF f.text # <<>>
                         THEN DictSet(d, TagName(f), Strip(f.text))
                         ELSE d)

\* the Error and Message elements of the document, where the reply lists
\* them
Notes(resp) == IF "notes" \in DOMAIN resp THEN resp.notes ELSE <<>>

\* QRZLookupThread.lookup_callsign once the request was made: the mapping,
\* None, or an exception re-raised as "Lookup failed: {str(e)}", where
\* str(e) is the message of the requests or the parser exception.  With no
\* field found, the texts of the Error and Message elements are printed
\* and None is returned; printed lists them.
lookup_callsign(resp) ==
    IF ~resp.net
    THEN [ret |-> "raise", data |-> <<>>, printed |-> <<>>,
          reason |-> <<"Lookup failed", "str(RequestException)">>]
    ELSE IF resp.status = 200 /\ ~resp.xml
    THEN [ret |-> "raise", data |-> <<>>, printed |-> <<>>,
          reason |-> <<"Lookup failed", "str(ParseError)">>]
    ELSE IF resp.status = 200 /\ ParseFields(resp.body, <<>>) # <<>>
    THEN [ret |-> "data", data |-> ParseFields(resp.body, <<>>),
          printed |-> <<>>, reason |-> <<>>]
    ELSE IF resp.status = 200
    THEN [ret |-> "None", data |-> <<>>, reason |-> <<>>,
          printed |-> [i \in DOMAIN Notes(resp) |-> Notes(resp)[i].text]]
    ELSE [ret |-> "None", data |-> <<>>, printed |-> <<>>, reason |-> <<>>]

ErrorOutcome(reason) ==
    [sig |-> "lookup_error", data |-> <<>>, reason |-> reason]

CompleteOutcome(data) ==
    [sig |-> "lookup_complete", data |-> data, reason |-> <<>>]

\* run() without its "except Exception" clause: an exception raised by
\* get_session_key ends the thread without a signal
RunAfterAuth_Escapes(resp) ==
    LET r == get_session_key(resp)
    IN  IF r.ret = "raise" \/ r.key = NoneVal
        THEN [pc |-> "done", key |-> NoneVal, emits |-> <<>>]
        ELSE [pc |-> "query", key |-> r.key, emits |-> <<>>]

\* QRZLookupThread.run from the reply of the session endpoint on: the
\* signals emitted before run() returns, or the query request it goes on
\* to make with self.session_key
RunAfterAuth(resp) ==
    LET r == get_session_key(resp)
    IN  IF r.ret = "raise"
        THEN [pc |-> "done", key |-> NoneVal,
              emits |-> <<ErrorOutcome(<<"QRZ lookup error">> \o r.reason)>>]
        ELSE IF r.key = NoneVal
        THEN \* self.session_key[:10] raises TypeError
             [pc |-> "done", key |-> r.key,
              emits |-> <<ErrorOutcome(<<"QRZ lookup error",
                              "'NoneType' object is not subscriptable">>)>>]
        ELSE IF r.key = ""
        THEN \* lookup_callsign returns None without a request
             [pc |-> "done", key |-> r.key,
              emits |-> <<ErrorOutcome(<<"No data found for", "callsign">>)>>]
        ELSE [pc |-> "query", key |-> r.key, emits |-> <<>>]

\* QRZLookupThread.run from the reply of the query endpoint on
RunAfterQuery(resp) ==
    LET r == lookup_callsign(resp)
    IN  IF r.ret = "raise"
        THEN <<ErrorOutcome(<<"QRZ lookup error">> \o r.reason)>>
        ELSE IF r.ret = "data"
        THEN <<CompleteOutcome(r.data)>>
        ELSE <<ErrorOutcome(<<"No data found for", "callsign">>)>>

\* signals emitted in the worker are queued for the main thread
Queued(w, emits) ==
    [i \in DOMAIN emits |-> [th |-> w, sig |-> emits[i].sig,
                             data |-> emits[i].data,
                             reason |-> emits[i].reason]]

Sigs(emits) == [i \in DOMAIN emits |-> emits[i].sig]

\* a session key kept from the first lookup and reused by later ones
QueryKey_Cached(w, key) ==
    IF w > 1 /\ threads[1].session_key # NoneVal
    THEN threads[1].session_key
    ELSE key

\* the key lookup_callsign puts into the query URL: self.session_key of
\* worker w, which get_session_key has just set to key
QueryKey(w, key) == key

\* the reply of the session endpoint arrives at worker w
RunAuthenticate(w, resp) ==
    /\ threads[w].pc = "auth"
    /\ LET r == RunAfterAuth(resp)
       IN  /\ threads' = [threads EXCEPT
                  ![w].pc = r.pc,
                  ![w].auth_response = resp,
                  ![w].session_key = r.key,
                  ![w].query_key = IF r.pc = "query"
                                   THEN QueryKey(w, r.key) ELSE NoneVal,
                  ![w].emitted = @ \o Sigs(r.emits)]
           /\ events' = events \o Queued(w, r.emits)
    /\ UNCHANGED <<call_input, freq_input, log_button, formVars, optVars,
                   timeVars, nThreads, current_lookup_thread, panelVars,
                   waited, logVars>>

\* the reply of the query endpoint arrives at worker w
RunQuery(w, resp) ==
    /\ threads[w].pc = "query"
    /\ LET emits == RunAfterQuery(resp)
       IN  /\ threads' = [threads EXCEPT
                  ![w].pc = "done",
                  ![w].query_response = resp,
                  ![w].emitted = @ \o Sigs(emits)]
           /\ events' = events \o Queued(w, emits)
    /\ UNCHANGED <<call_input, freq_input, log_button, formVars, optVars,
                   timeVars, nThreads, current_lookup_thread, panelVars,
                   waited, logVars>>

\* ------------------------------------------------------------------------
\* QSOLogger: handlers of the main thread
\* ------------------------------------------------------------------------
\* update_log_button_state that also wants the report sent to be valid
ButtonState_Rst(call, freq) ==
    /\ Strip(call) # <<>> /\ validate_callsign(Strip(call))
    /\ Strip(freq) # <<>> /\ validate_frequency(Strip(freq))
    /\ validate_rst(rst_sent_input) = "True"

\* QSOLogger.update_log_button_state
ButtonState(call, freq) ==
    /\ Strip(call) # <<>> /\ validate_callsign(Strip(call))
    /\ Strip(freq) # <<>> /\ validate_frequency(Strip(freq))

\* should_lookup in on_callsign_changed
should_lookup(text) ==
    /\ auto_lookup_checkbox
    /\ Strip(text) # <<>>
    /\ Len(Strip(text)) >= 3
    /\ Strip(config.qrz_username) # <<>>
    /\ Strip(config.qrz_password) # <<>>

\* QSOLogger.clear_qrz_info
clear_qrz_info ==
    /\ station_info_text' = PromptText
    /\ photo_label' = "No Photo"
    /\ lookup_status_label' = <<>>
    /\ display_src' = 0

\* QSOLogger.on_callsign_changed, the slot of call_input.textChanged:
\* clears the panel, terminates and waits for a running worker, restarts
\* the timer when should_lookup holds and leaves it alone otherwise
on_callsign_changed(text) ==
    /\ clear_qrz_info
    /\ IF current_lookup_thread # 0 /\ isRunning(threads[current_lookup_thread])
       THEN /\ threads' = [threads EXCEPT
                              ![current_lookup_thread].pc = "terminated"]
            /\ waited' = TRUE
       ELSE UNCHANGED <<threads, waited>>
    /\ lookup_timer' = IF should_lookup(text)
                       THEN [active |-> TRUE, left |-> QuietPeriod]
                       ELSE lookup_timer
    /\ since_change' = 0
    /\ UNCHANGED <<nThreads, current_lookup_thread, events, photo_replies>>

\* the user types into call_input
EditCall(t) ==
    /\ t # call_input
    /\ call_input' = t
    /\ log_button' = ButtonState(t, freq_input)
    /\ on_callsign_changed(t)
    /\ UNCHANGED <<freq_input, formVars, optVars, logVars>>

\* the user types into freq_input
EditFreq(f) ==
    /\ f # freq_input
    /\ freq_input' = f
    /\ log_button' = ButtonState(call_input, f)
    /\ UNCHANGED <<call_input, formVars, optVars, timeVars, threadVars,
                   panelVars, waited, logVars>>

\* the user picks a band, a mode or edits a report box
EditForm(b, m, s, r) ==
    /\ <<b, m, s, r>> # formVars
    /\ band_select' = b
    /\ mode_select' = m
    /\ rst_sent_input' = s
    /\ rst_recv_input' = r
    /\ UNCHANGED <<call_input, freq_input, log_button, optVars, timeVars,
                   threadVars, panelVars, waited, logVars>>

ToggleAutoLookup ==
    /\ auto_lookup_checkbox' = ~auto_lookup_checkbox
    /\ UNCHANGED <<auto_clear_checkbox, config>>
    /\ UNCHANGED <<call_input, freq_input, log_button, formVars, timeVars,
                   threadVars, panelVars, waited, logVars>>

ToggleAutoClear ==
    /\ auto_clear_checkbox' = ~auto_clear_checkbox
    /\ UNCHANGED <<auto_lookup_checkbox, config>>
    /\ UNCHANGED <<call_input, freq_input, log_button, formVars, timeVars,
                   threadVars, panelVars, waited, logVars>>

\* QSOLogger.show_qrz_settings accepted, with save_configuration
show_qrz_settings(u, p) ==
    /\ config' = [qrz_username |-> Strip(u), qrz_password |-> Strip(p),
                  default_rst_sent |-> rst_sent_input,
                  default_rst_recv |-> rst_recv_input]
    /\ config' # config
    /\ UNCHANGED <<auto_lookup_checkbox, auto_clear_checkbox>>
    /\ UNCHANGED <<call_input, freq_input, log_button, formVars, timeVars,
                   threadVars, panelVars, waited, logVars>>

\* QSOLogger.gather_qso_data
gather_qso_data(now) ==
    [call |-> Upper(Strip(call_input)),
     band |-> band_select,
     freq |-> Strip(freq_input),
     mode |-> mode_select,
     rst_sent |-> rst_sent_input,
     rst_recv |-> rst_recv_input,
     date |-> now.date,
     time |-> now.time]

\* log_qso without its first two lines
LogGate_NoGate == TRUE

\* the gate of log_qso: "if not self.log_button.isEnabled(): return"
LogGate == log_button

\* send_to_log4om that swallows the socket errors
send_to_log4om_Swallow(outcome) == "return"

\* QSOLogger.send_to_log4om: socket.timeout and socket.error are re-raised
\* as Exception, otherwise the call returns
send_to_log4om(outcome) == IF outcome = "ok" THEN "return" ELSE "raise"

\* send_to_log4om that sends again after a failed sendto
sendto_Retry(adif_entry, outcome) ==
    IF outcome = "ok"
    THEN <<[payload |-> Utf8(adif_entry), result |-> outcome]>>
    ELSE <<[payload |-> Utf8(adif_entry), result |-> outcome],
           [payload |-> Utf8(adif_entry), result |-> outcome]>>

\* the socket calls of send_to_log4om that put data on the network or take
\* data from it: one sock.sendto of adif_entry.encode('utf-8'), in no loop,
\* and no recv
sendto(adif_entry, outcome) ==
    <<[payload |-> Utf8(adif_entry), result |-> outcome]>>

\* QSOLogger.handle_successful_log
handle_successful_log(callsign) ==
    /\ dialog' = "success"
    /\ log_display' = Append(log_display, callsign)
    /\ qso_logged' = Append(qso_logged, callsign)
    /\ IF auto_clear_checkbox
       THEN /\ call_input' = <<>>
            /\ log_button' = ButtonState(<<>>, freq_input)
            /\ on_callsign_changed(<<>>)
       ELSE UNCHANGED <<call_input, log_button, timeVars, threadVars,
                        panelVars, waited>>

\* QSOLogger.log_qso with send_to_log4om: clicked, or Return pressed in
\* call_input or freq_input
log_qso(now, outcome) ==
    /\ Len(datagrams) < MaxSends
    /\ IF ~LogGate
       THEN UNCHANGED vars
       ELSE LET qso_data == gather_qso_data(now)
                adif_entry == create_adif_entry(qso_data)
                calls == sendto(adif_entry, outcome)
            IN  /\ datagrams' = datagrams \o
                       [i \in DOMAIN calls |->
                           [entry |-> qso_data, adif |-> adif_entry,
                            payload |-> calls[i].payload,
                            result |-> calls[i].result]]
                /\ IF send_to_log4om(outcome) = "return"
                   THEN handle_successful_log(qso_data.call)
                   ELSE /\ dialog' = "critical"
                        /\ UNCHANGED <<call_input, log_button, timeVars,
                                       threadVars, panelVars, waited,
                                       log_display, qso_logged>>
                /\ UNCHANGED <<freq_input, formVars, optVars>>

\* QSOLogger.clear_all_fields
clear_all_fields ==
    /\ call_input' = <<>>
    /\ freq_input' = <<>>
    /\ log_button' = IF call_input # <<>> \/ freq_input # <<>>
                     THEN ButtonState(<<>>, <<>>)
                     ELSE log_button
    /\ rst_sent_input' = config.default_rst_sent
    /\ rst_recv_input' = config.default_rst_recv
    /\ band_select' = <<"2","0","m">>
    /\ mode_select' = <<"F","T","8">>
    /\ IF call_input # <<>>
       THEN on_callsign_changed(<<>>)
       ELSE /\ clear_qrz_info
            /\ UNCHANGED <<timeVars, threadVars, photo_replies, waited>>
    /\ <<call_input, freq_input, formVars, panelVars>>' #
           <<call_input, freq_input, formVars, panelVars>>
    /\ UNCHANGED <<optVars, logVars>>

\* QSOLogger.test_qrz_lookup with a non-blank text and both credentials
test_qrz_lookup(text) ==
    /\ nThreads < MaxThreads
    /\ Strip(text) # <<>>
    /\ Strip(config.qrz_username) # <<>>
    /\ Strip(config.qrz_password) # <<>>
    /\ nThreads' = nThreads + 1
    /\ threads' = [threads EXCEPT
                      ![nThreads + 1] = NewThread(Upper(Strip(text)), "test")]
    /\ current_lookup_thread' = nThreads + 1
    /\ UNCHANGED <<call_input, freq_input, log_button, formVars, optVars,
                   timeVars, events, panelVars, waited, logVars>>

\* what perform_qrz_lookup does with the worker object
StartLookup(callsign) ==
    /\ nThreads' = nThreads + 1
    /\ threads' = [threads EXCEPT ![nThreads + 1] = NewThread(callsign, "auto")]
    /\ current_lookup_thread' = nThreads + 1

\* perform_qrz_lookup without its two early returns
perform_qrz_lookup_NoReturns ==
    /\ lookup_timer.active /\ lookup_timer.left = 0
    /\ nThreads < MaxThreads
    /\ lookup_timer' = [active |-> FALSE, left |-> 0]
    /\ lookup_status_label' = <<"Looking up", "callsign">>
    /\ StartLookup(Strip(call_input))
    /\ UNCHANGED <<call_input, freq_input, log_button, formVars, optVars,
                   since_change, events, station_info_text, photo_label,
                   display_src, photo_replies, waited, logVars>>

\* QSOLogger.perform_qrz_lookup, the slot of lookup_timer.timeout
perform_qrz_lookup ==
    /\ lookup_timer.active /\ lookup_timer.left = 0
    /\ nThreads < MaxThreads
    /\ lookup_timer' = [active |-> FALSE, left |-> 0]
    /\ LET callsign == Strip(call_input)
       IN  IF callsign = <<>> \/ ~validate_callsign(callsign)
           THEN UNCHANGED <<lookup_status_label, threads, nThreads,
                            current_lookup_thread>>
           ELSE IF Strip(config.qrz_username) = <<>>
                   \/ Strip(config.qrz_password) = <<>>
           THEN /\ lookup_status_label' = <<"QRZ credentials required">>
                /\ UNCHANGED <<threads, nThreads, current_lookup_thread>>
           ELSE /\ lookup_status_label' = <<"Looking up", "callsign">>
                /\ StartLookup(callsign)
    /\ UNCHANGED <<call_input, freq_input, log_button, formVars, optVars,
                   since_change, events, station_info_text, photo_label,
                   display_src, photo_replies, waited, logVars>>

DictHas(d, k) == \E i \in DOMAIN d : d[i][1] = k
DictGet(d, k) == d[CHOOSE i \in DOMAIN d : d[i][1] = k][2]

\* keys that display_qrz_info turns into a line
InfoKeys == {"fname", "name", "addr1", "addr2", "state", "zip", "country",
             "grid", "email"}

\* QSOLogger.display_qrz_info
display_qrz_info(data) ==
    IF (\E k \in InfoKeys : DictHas(data, k))
       \/ (DictHas(data, "bio") /\ DictGet(data, "bio") # <<>>)
    THEN [kind |-> "info", data |-> data]
    ELSE [kind |-> "none available", data |-> <<>>]

\* QSOLogger.on_qrz_lookup_complete with load_qrz_photo
on_qrz_lookup_complete(th, data) ==
    /\ station_info_text' = display_qrz_info(data)
    /\ lookup_status_label' = <<"Last lookup">>
    /\ display_src' = th
    /\ photo_replies' =
          IF DictHas(data, "image") /\ DictGet(data, "image") # <<>>
          THEN Append(photo_replies,
                      [src |-> th, input |-> Strip(Upper(call_input))])
          ELSE photo_replies
    /\ UNCHANGED photo_label

\* QSOLogger.on_qrz_lookup_error
on_qrz_lookup_error(th, error_message) ==
    /\ lookup_status_label' = <<"Lookup error">> \o error_message
    /\ station_info_text' = [kind |-> "failed", data |-> <<>>]
    /\ display_src' = th
    /\ UNCHANGED <<photo_label, photo_replies>>

\* the event loop delivers the oldest queued emission to the slots that
\* were connected to the emitting thread; the test slots only show a box
DeliverSignal ==
    /\ events # <<>>
    /\ events' = Tail(events)
    /\ LET e == Head(events)
       IN  IF threads[e.th].kind = "auto"
           THEN IF e.sig = "lookup_complete"
                THEN on_qrz_lookup_complete(e.th, e.data)
                ELSE on_qrz_lookup_error(e.th, e.reason)
           ELSE UNCHANGED panelVars
    /\ UNCHANGED <<call_input, freq_input, log_button, formVars, optVars,
                   timeVars, threads, nThreads, current_lookup_thread,
                   waited, logVars>>

RemoveAt(s, i) == SubSeq(s, 1, i - 1) \o SubSeq(s, i + 1, Len(s))

\* QSOLogger.on_photo_loaded for one finished reply
on_photo_loaded(i, result) ==
    /\ i \in DOMAIN photo_replies
    /\ photo_label' = CASE result = "pixmap" -> "pixmap"
                        [] result = "invalid" -> "Invalid Image"
                        [] OTHER -> "Photo Load Failed"
    /\ photo_replies' = RemoveAt(photo_replies, i)
    /\ UNCHANGED <<station_info_text, lookup_status_label, display_src>>
    /\ UNCHANGED <<call_input, freq_input, log_button, formVars, optVars,
                   timeVars, threadVars, waited, logVars>>

\* TickMs of time pass; a due timer stays due until the event loop runs it
Tick ==
    /\ since_change < QuietPeriod \/ (lookup_timer.active /\ lookup_timer.left > 0)
    /\ since_change' = IF since_change + TickMs > QuietPeriod
                       THEN QuietPeriod ELSE since_change + TickMs
    /\ lookup_timer' = IF lookup_timer.active /\ lookup_timer.left > 0
                       THEN [lookup_timer EXCEPT !.left = @ - TickMs]
                       ELSE lookup_timer
    /\ UNCHANGED <<call_input, freq_input, log_button, formVars, optVars,
                   threadVars, panelVars, waited, logVars>>

\* ------------------------------------------------------------------------
\* Specifications
\* ------------------------------------------------------------------------
\* form settings picked in the logging specification
FormChoices == { <<<<"2","0","m">>, <<"F","T","8">>, <<"5","9">>, <<"5","9">>>>,
                 <<<<"4","0","m">>, <<"C","W">>, <<>>, <<"5","9">>>> }

\* replies of the two endpoints in the orchestration specification
FewAuthResponses == { AuthOk }
FewQueryResponses == { QueryJo, QueryHttp500 }

\* the form and the logging action, without directory credentials
NextLog ==
    \/ \E t \in CallTexts : EditCall(t)
    \/ \E f \in FreqTexts : EditFreq(f)
    \/ \E c \in FormChoices : EditForm(c[1], c[2], c[3], c[4])
    \/ ToggleAutoClear
    \/ \E now \in Clock, o \in SendOutcomes : log_qso(now, o)
    \/ clear_all_fields

SpecLog == Init /\ [][NextLog]_vars

\* the callsign input, the debounce timer, the workers and their signals
NextLookup ==
    \/ \E t \in CallTexts : EditCall(t)
    \/ ToggleAutoLookup
    \/ \E u \in CredTexts : show_qrz_settings(u, u)
    \/ \E t \in TestTexts : test_qrz_lookup(t)
    \/ perform_qrz_lookup
    \/ \E w \in 1..MaxThreads, r \in FewAuthResponses : RunAuthenticate(w, r)
    \/ \E w \in 1..MaxThreads, r \in FewQueryResponses : RunQuery(w, r)
    \/ DeliverSignal
    \/ Tick

SpecLookup == Init /\ [][NextLookup]_vars

\* the worker against every reply of the two endpoints
NextWorker ==
    \/ \E t \in {<<>>, <<"W","1">>} : EditCall(t)
    \/ \E u \in {<<"u">>} : show_qrz_settings(u, u)
    \/ \E t \in TestTexts : test_qrz_lookup(t)
    \/ \E w \in 1..MaxThreads, r \in AuthResponses : RunAuthenticate(w, r)
    \/ \E w \in 1..MaxThreads, r \in QueryResponses : RunQuery(w, r)
    \/ DeliverSignal

SpecWorker == Init /\ [][NextWorker]_vars

\* the worker with a good session key against every reply of the query
\* endpoint
NextQuery ==
    \/ \E t \in {<<>>, <<"W","1">>} : EditCall(t)
    \/ \E u \in {<<"u">>} : show_qrz_settings(u, u)
    \/ \E t \in TestTexts : test_qrz_lookup(t)
    \/ \E w \in 1..MaxThreads, r \in FewAuthResponses : RunAuthenticate(w, r)
    \/ \E w \in 1..MaxThreads, r \in MoreQueryResponses : RunQuery(w, r)
    \/ DeliverSignal

SpecQuery == Init /\ [][NextQuery]_vars

\* logging while lookups are pending, running and finished
NextGate ==
    \/ \E t \in {<<>>, <<"K","2","B">>} : EditCall(t)
    \/ \E f \in {<<>>, <<"1","4",".","0","7","4">>} : EditFreq(f)
    \/ \E u \in {<<"u">>} : show_qrz_settings(u, u)
    \/ \E now \in Clock, o \in {"ok", "timeout"} : log_qso(now, o)
    \/ perform_qrz_lookup
    \/ \E w \in 1..MaxThreads, r \in FewAuthResponses : RunAuthenticate(w, r)
    \/ \E w \in 1..MaxThreads, r \in {QueryJo} : RunQuery(w, r)
    \/ DeliverSignal
    \/ Tick

SpecGate == Init /\ [][NextGate]_vars

\* the debounce timer firing on every kind of text, with and without
\* credentials
NextDebounce ==
    \/ \E t \in {<<>>, <<"w","1","a","w"," ">>, <<"H","E","L","L","O">>} :
          EditCall(t)
    \/ \E u \in CredTexts : show_qrz_settings(u, u)
    \/ perform_qrz_lookup
    \/ \E w \in 1..MaxThreads, r \in FewAuthResponses : RunAuthenticate(w, r)
    \/ \E w \in 1..MaxThreads, r \in {QueryJo} : RunQuery(w, r)
    \/ DeliverSignal
    \/ Tick

SpecDebounce == Init /\ [][NextDebounce]_vars

\* outcomes of a photo request: a picture, data that is no picture, or a
\* network error
PhotoResults == {"pixmap", "invalid", "failed"}

\* lookups that name a picture, and the replies to the photo requests
NextPhoto ==
    \/ \E t \in {<<>>, <<"K","2","B">>, <<"w","1","a","w"," ">>} : EditCall(t)
    \/ \E u \in {<<"u">>} : show_qrz_settings(u, u)
    \/ perform_qrz_lookup
    \/ \E w \in 1..MaxThreads, r \in FewAuthResponses : RunAuthenticate(w, r)
    \/ \E w \in 1..MaxThreads, r \in {QueryImage, QueryJo} : RunQuery(w, r)
    \/ DeliverSignal
    \/ \E i \in 1..MaxThreads, r \in PhotoResults : on_photo_loaded(i, r)
    \/ Tick

SpecPhoto == Init /\ [][NextPhoto]_vars

\* texts typed into call_input where the validator is examined: every text
\* of up to MaxCallLen characters of CallAlphabet, and some longer ones
CallAlphabet == {"A", "b", "7", " "}
CallCheckTexts ==
    UNION {[1..k -> CallAlphabet] : k \in 0..MaxCallLen}
    \cup { <<"A","B","A","7","B","A","B","A">>,
           <<"a","b","7","7","7","7","7","b","\n">>,
           <<"\t","7","7","7","7","a","b","a","b"," ">>,
           <<"A","B","A","7","B","A","B","A","B">>,
           <<"A","B","7","A","B","A","B","A">>,
           <<"A","7","B","\n","A">>,
           <<"A","7","-","B">>, <<"-","A","7","B">>, <<"A","7","B","-">>,
           <<"A","_","7","B">>, <<"A","7",".","B">> }

\* call_input holds any text; freq_input is empty or valid
NextCall ==
    \/ \E t \in CallCheckTexts : EditCall(t)
    \/ \E f \in {<<>>, <<"1","4",".","0","7","4">>} : EditFreq(f)

SpecCall == Init /\ [][NextCall]_vars

\* texts typed into freq_input where the validator is examined: every text
\* of up to MaxFreqLen characters of FreqAlphabet, and some longer ones
FreqAlphabet == {"0", "1", ".", "e"}
FreqCheckTexts ==
    UNION {[1..k -> FreqAlphabet] : k \in 0..MaxFreqLen}
    \cup
    { <<"1","4",".","0","7","4">>,
      <<"0",".","1">>,
      <<"3","0","0","0","0","0">>,
      <<"0",".","0","5">>,
      <<"3","0","0","0","0","0",".","0","1">>,
      <<"a","b","c">>,
      <<"0",".","0","9","9","9","9","9","9","9","9","9","9","9","9","9","9","9","9","9","9">>,
      <<"0",".","0","9","9","9","9","9","9","9","9","9","9","9","9","9","9","9","9">>,
      <<"0",".","0","9","9","9","9","9","9","9","9","9","9","9","9","9","9","9","9","8","6","1","2","2","2","1","2","1","9","2","1","8","5","5","4","3","2","4","4","7","0","4","6","0","4","1","4","8","8","6","4","7","4","6","0","9","3","7","5">>,
      <<"0",".","0","9","9","9","9","9","9","9","9","9","9","9","9","9","9","9","9","8","6","1","2","2","2","1","2","1","9","2","1","8","5","5","4","3","2","4","4","7","0","4","6","0","4","1","4","8","8","6","4","7","4","6","0","9","3","7","4">>,
      <<"3","0","0","0","0","0",".","0","0","0","0","0","0","0","0","0","0","1">>,
      <<"3","0","0","0","0","0",".","0","0","0","0","0","0","0","0","0","1">>,
      <<"3","0","0","0","0","0",".","0","0","0","0","0","0","0","0","0","0","2","9","1","0","3","8","3","0","4","5","6","7","3","3","7","0","3","6","1","3","2","8","1","2","5">>,
      <<"3","0","0","0","0","0",".","0","0","0","0","0","0","0","0","0","0","2","9","1","0","3","8","3","0","4","5","6","7","3","3","7","0","3","6","1","3","2","8","1","2","6">>,
      <<"n","a","n">>,
      <<"N","a","N">>,
      <<"i","n","f">>,
      <<"-","i","n","f">>,
      <<"I","n","f","i","n","i","t","y">>,
      <<"-","0",".","5">>,
      <<"-","1","4">>,
      <<"+","1","4">>,
      <<" ","1","4","\n">>,
      <<"1"," ","4">>,
      <<"1","_","0">>,
      <<"_","1","0">>,
      <<"1","_","_","0">>,
      <<"3","e","5">>,
      <<"3",".","1","e","5">>,
      <<"3","0","E","4">>,
      <<"1","e","-","1">>,
      <<"9","e","-","2">>,
      <<"1","e","+","2">>,
      <<"1","e","4","0">>,
      <<"0","x","1","0">>,
      <<"1","e">>,
      <<"1",".","e","1">>,
      <<"0",".","1",".","2">>,
      <<"+">>,
      <<"U+0665">>,
      <<"1","U+0665",".","U+0665">>,
      <<"0",".","1","0">>,
      <<"0","0","0",".","1","0","0","0">>,
      <<"2","9","9","9","9","9",".","9","9","9">>,
      <<"0">> }

\* freq_input holds any text; call_input is empty or valid
NextFreq ==
    \/ \E f \in FreqCheckTexts : EditFreq(f)
    \/ \E t \in {<<>>, <<"K","2","B">>} : EditCall(t)

SpecFreq == Init /\ [][NextFreq]_vars

\* form settings picked where the record is examined: the report boxes
\* hold an empty text, the characters of the record syntax, a whole tag
\* and characters outside ASCII
RecordChoices ==
    { <<<<"2","0","m">>, <<"F","T","8">>, <<"5","9">>, <<"5","9">>>>,
      <<<<"4","0","m">>, <<"C","W">>, <<>>, <<"<",":",">">>>>,
      <<<<"2","0","m">>, <<"F","T","8">>, <<"5","U+00E9">>, <<"5","9">>>>,
      <<<<"4","0","m">>, <<"C","W">>, <<"<","E","O","R",">">>,
        <<"<","C","A","L","L",":","3",">","K","2","B">>>> }

\* the form with unusual report and frequency texts, and the logging action
NextRecord ==
    \/ \E t \in {<<>>, <<"k","2","b"," ">>} : EditCall(t)
    \/ \E f \in {<<"1","4",".","0","7","4">>, <<"1","U+0665">>} : EditFreq(f)
    \/ \E c \in RecordChoices : EditForm(c[1], c[2], c[3], c[4])
    \/ \E now \in Clock, o \in {"ok", "error"} : log_qso(now, o)

SpecRecord == Init /\ [][NextRecord]_vars

\* texts typed into the two editable report boxes
RstCheckTexts ==
    { <<>>, <<"5","9">>, <<"1","1">>, <<"1","0">>, <<"6","0">>, <<"5">>,
      <<"5","9","9">>, <<"0","0","5","9">>, <<"5","a">>, <<" ","5","9">>,
      <<"-","5">>, <<"U+00B2">>, <<"5","U+00B2">>, <<"U+0665","U+0665">> }

\* the report boxes hold any text
NextRst ==
    \E s \in RstCheckTexts, r \in RstCheckTexts :
        EditForm(band_select, mode_select, s, r)

SpecRst == Init /\ [][NextRst]_vars

\* ------------------------------------------------------------------------
\* Properties
\* ------------------------------------------------------------------------
\* a datagram attempt was made in this step
Sent == Len(datagrams') > Len(datagrams)

\* C1: whenever log_qso encodes and sends an entry, the call text and the
\* frequency text read at that moment pass validate_callsign and
\* validate_frequency; with an invalid text log_qso encodes nothing, sends
\* nothing and shows no error box.
C1_ValidBeforeSend ==
    [][(Sent \/ dialog' # dialog)
          => (validate_callsign(call_input) /\ validate_frequency(freq_input))]_vars

\* an entry was encoded and sent, and the gate is closed again because the
\* call input was cleared
C1_Witness ==
    /\ datagrams # <<>>
    /\ datagrams[Len(datagrams)].result = "ok"
    /\ ~log_button

\* C4: a send that fails leaves the Recent QSOs display, the qso_logged
\* emissions and the call input as they were and shows the error box; an
\* entry is recorded as logged only in a step whose send succeeded.
C4_FailedSendNotLogged ==
    [][/\ (Sent /\ datagrams'[Len(datagrams')].result # "ok")
            => /\ log_display' = log_display
               /\ qso_logged' = qso_logged
               /\ call_input' = call_input
               /\ dialog' = "critical"
       /\ (log_display' # log_display \/ qso_logged' # qso_logged)
            => (Sent /\ datagrams'[Len(datagrams')].result = "ok")]_vars

\* a send timed out and the error box is showing
C4_Witness ==
    /\ \E i \in DOMAIN datagrams : datagrams[i].result = "timeout"
    /\ dialog = "critical"
    /\ Len(log_display) < Len(datagrams)

\* the debounce path creates and starts a worker in this step
DebounceStart ==
    /\ nThreads' = nThreads + 1
    /\ threads'[nThreads'].kind = "auto"

\* C2: the outcome of a lookup is shown on the panel only while the
\* callsign the lookup was started for is the callsign in the input.
C2_NoStaleResult ==
    display_src # 0 =>
        threads[display_src].callsign = Strip(Upper(call_input))

\* C3: at most one lookup worker is running at any moment.
C3_OneWorker ==
    Cardinality({w \in 1..MaxThreads : isRunning(threads[w])}) <= 1

\* C6: the debounce path starts a worker only when QuietPeriod ms have
\* passed since the last change of the callsign text.
C6_QuietPeriod ==
    [][DebounceStart => since_change >= QuietPeriod]_vars

\* C7: when the debounce path starts a worker, auto-lookup is enabled, the
\* trimmed callsign text has at least 3 characters and both credentials
\* are non-empty.
C7_StartConditions ==
    [][DebounceStart =>
          /\ auto_lookup_checkbox
          /\ Len(Strip(call_input)) >= 3
          /\ Strip(config.qrz_username) # <<>>
          /\ Strip(config.qrz_password) # <<>>]_vars

\* C8: the gate of log_qso and the record it sends depend on the form
\* alone, whatever the lookup is doing, and no handler of the main thread
\* waits for a lookup worker.
C8_LookupNeverBlocks ==
    [][/\ log_button' = ButtonState(call_input', freq_input')
       /\ Sent => \E now \in Clock :
                     datagrams'[Len(datagrams')].payload =
                         Utf8(create_adif_entry(gather_qso_data(now)))
       /\ ~waited']_vars

\* positions of the Key and Error children in a reply of the session
\* endpoint
KeyIdx(r) == {i \in DOMAIN r.body : r.body[i].tag = "Key"}
ErrIdx(r) == {i \in DOMAIN r.body : r.body[i].tag = "Error"}
Parsed(r) == r.net /\ r.status = 200 /\ r.xml
FirstKey(r) == r.body[CHOOSE i \in KeyIdx(r) : \A j \in KeyIdx(r) : i <= j]
FirstErr(r) == r.body[CHOOSE i \in ErrIdx(r) : \A j \in ErrIdx(r) : i <= j]

\* the reply carries an Error element
HasError(r) == Parsed(r) /\ ErrIdx(r) # {}

\* the reply carries an Error element before any Key element
ErrorFirst(r) ==
    Parsed(r) /\ \E e \in ErrIdx(r) : \A k \in KeyIdx(r) : e < k

\* authentication fails for another reason than an Error element
FailsOtherwise(r) ==
    \/ ~Parsed(r)
    \/ KeyIdx(r) = {}
    \/ (~ErrorFirst(r) /\ FirstKey(r).text = NoneVal)

\* the query request of worker t has been made
Queried(t) == t.pc = "query" \/ t.query_response # NoReply

\* the lookup of worker t ended in failure without a query request
FailedBeforeQuery(t) ==
    /\ ~Queried(t)
    /\ t.query_key = NoneVal
    /\ t.pc = "done" => t.emitted = <<"lookup_error">>

\* the query request follows a reply of the session endpoint of the same
\* lookup and carries the key of that reply
QueryAfterAuth(t) ==
    Queried(t) =>
        /\ Parsed(t.auth_response)
        /\ KeyIdx(t.auth_response) # {}
        /\ t.query_key = FirstKey(t.auth_response).text
        /\ t.query_key # NoneVal

\* C5 as claimed: the query follows the authentication of the same lookup
\* and uses its key, and a reply of the session endpoint that carries an
\* Error element, or any other authentication failure, ends the lookup in
\* failure without a query request.
C5_ErrorNeverQueries ==
    \A w \in 1..MaxThreads :
        LET t == threads[w]
        IN  /\ QueryAfterAuth(t)
            /\ (t.auth_response # NoReply
                /\ (HasError(t.auth_response) \/ FailsOtherwise(t.auth_response)))
                   => FailedBeforeQuery(t)

\* C5 amended: the query follows the authentication of the same lookup and
\* uses its key, and a reply of the session endpoint whose Error element
\* comes before any Key element, or any other authentication failure, ends
\* the lookup in failure without a query request.
C5_Ordering ==
    \A w \in 1..MaxThreads :
        LET t == threads[w]
        IN  /\ QueryAfterAuth(t)
            /\ (t.auth_response # NoReply
                /\ (ErrorFirst(t.auth_response) \/ FailsOtherwise(t.auth_response)))
                   => FailedBeforeQuery(t)

\* one lookup has made its query with the key k2 of its own session reply
\* and another has failed on an Error element
C5_Witness ==
    /\ \E w \in 1..MaxThreads : /\ Queried(threads[w])
                                /\ threads[w].query_key = "k2"
    /\ \E w \in 1..MaxThreads :
          /\ ErrorFirst(threads[w].auth_response)
          /\ threads[w].pc = "done"

\* C9: a worker that has run to completion has emitted exactly one signal,
\* a worker that has not has emitted none; a failure in get_session_key or
\* lookup_callsign ends as lookup_error; lookup_complete carries a
\* non-empty mapping and lookup_error a reason.
C9_ExactlyOneOutcome ==
    /\ \A w \in 1..MaxThreads :
          LET t == threads[w]
          IN  /\ t.pc = "done" => Len(t.emitted) = 1
              /\ t.pc # "done" => t.emitted = <<>>
              /\ (t.pc = "done" /\ ~Queried(t)) => t.emitted = <<"lookup_error">>
              /\ (t.pc = "done" /\ Queried(t)
                  /\ (~t.query_response.net \/ ~t.query_response.xml))
                    => t.emitted = <<"lookup_error">>
    /\ \A i \in DOMAIN events :
          /\ events[i].sig \in {"lookup_complete", "lookup_error"}
          /\ events[i].sig = "lookup_complete" => events[i].data # <<>>
          /\ events[i].sig = "lookup_error" => events[i].reason # <<>>

\* one worker has completed with data and one has failed in authentication
C9_Witness ==
    /\ \E w \in 1..MaxThreads : threads[w].emitted = <<"lookup_complete">>
    /\ \E w \in 1..MaxThreads :
          /\ threads[w].emitted = <<"lookup_error">>
          /\ ~Queried(threads[w])

\* the category a reported reason names
Category(reason) ==
    IF Len(reason) < 2 THEN "none"
    ELSE CASE reason[2] = "Authentication failed" -> "AuthenticationError"
           [] reason[2] = "XML parsing failed" -> "ProtocolError"
           [] reason[2] = "Network error" -> "TransportError"
           [] OTHER -> "none"

Carries(reason, part) ==
    \E i \in DOMAIN reason :
        i + Len(part) - 1 <= Len(reason)
        /\ SubSeq(reason, i, i + Len(part) - 1) = part

\* C10: the reason reported for a failure of the Authenticate step names
\* the category of its cause: AuthenticationError with the server message
\* for an Error element, ProtocolError for malformed XML, TransportError
\* with the status code for a non-success HTTP status, TransportError for a
\* network failure.
C10_AuthFailureCategories ==
    \A i \in DOMAIN events :
        LET e == events[i]
            t == threads[e.th]
            r == t.auth_response
        IN  (e.sig = "lookup_error" /\ ~Queried(t)) =>
               /\ ErrorFirst(r) =>
                     /\ Category(e.reason) = "AuthenticationError"
                     /\ Carries(e.reason, <<FirstErr(r).text>>)
               /\ (r.net /\ r.status = 200 /\ ~r.xml) =>
                     Category(e.reason) = "ProtocolError"
               /\ (r.net /\ r.status # 200) =>
                     /\ Category(e.reason) = "TransportError"
                     /\ Carries(e.reason, NatToStr(r.status))
               /\ ~r.net => Category(e.reason) = "TransportError"

\* C19: one execution of log_qso that passes the gate hands exactly one
\* datagram to the socket, whatever the result of the send; the attempts
\* made earlier stay as they were and nothing is sent again for them; a
\* datagram is only ever sent in a step of log_qso (the step that shows
\* the success or the error box), so a second send needs a second action.
C19_AtMostOnce ==
    [][/\ datagrams' # datagrams =>
            /\ LogGate
            /\ Len(datagrams') = Len(datagrams) + 1
            /\ SubSeq(datagrams', 1, Len(datagrams)) = datagrams
            /\ dialog' = IF datagrams'[Len(datagrams')].result = "ok"
                         THEN "success" ELSE "critical"
       /\ (log_display' # log_display \/ dialog' # dialog) =>
            Len(datagrams') = Len(datagrams) + 1]_vars

\* a send failed, the user triggered log_qso again and that one went out
C19_Witness ==
    /\ Len(datagrams) = 2
    /\ datagrams[1].result = "error"
    /\ datagrams[2].result = "ok"
    /\ datagrams[1].payload = datagrams[2].payload

\* C20: the log button is enabled exactly when the trimmed call input
\* passes validate_callsign and the trimmed frequency input passes
\* validate_frequency; the report texts take no part in it, and an entry
\* sent carries the two report texts of the form as they are.
C20_GateIsBothValidators ==
    [][/\ log_button = (validate_callsign(Strip(call_input))
                           /\ validate_frequency(Strip(freq_input)))
       /\ log_button' = (validate_callsign(Strip(call_input'))
                            /\ validate_frequency(Strip(freq_input')))
       /\ Sent =>
            LET d == datagrams'[Len(datagrams')]
            IN  /\ d.entry.rst_sent = rst_sent_input
                /\ d.entry.rst_recv = rst_recv_input
                /\ Carries(d.payload,
                           Utf8(<<">">> \o rst_sent_input
                                \o <<"<","R","S","T","_","R","C","V","D",":">>))
                /\ Carries(d.payload,
                           Utf8(<<">">> \o rst_recv_input
                                \o <<"<","E","O","R",">">>))]_vars

\* the button is enabled while the report sent is empty, and an entry with
\* a report that validate_rst does not accept went out
C20_Witness ==
    /\ log_button
    /\ rst_sent_input = <<>>
    /\ \E i \in DOMAIN datagrams :
          /\ validate_rst(datagrams[i].entry.rst_sent) = "False"
          /\ datagrams[i].result = "ok"

\* C18: validate_rst gives an answer for every text and raises nothing: it
\* answers true exactly for a non-empty text of decimal digits whose
\* integer value is between 11 and 59, and false for every other text, a
\* text of digit characters that int() does not convert included.
C18_RstTotal ==
    \A rst \in {rst_sent_input, rst_recv_input} :
        /\ validate_rst(rst) \in {"True", "False"}
        /\ (validate_rst(rst) = "True") <=>
               /\ rst # <<>>
               /\ \A i \in DOMAIN rst : IsDecimalChar(rst[i])
               /\ IntVal(rst) \in 11..59

\* the texts over the letters and digits of CallAlphabet that are one to
\* three alphanumerics, a digit, up to three alphanumerics and a letter
CallLanguage ==
    LET Letters == {"A", "B"}
        Digits == {"7"}
        Alnum == Letters \cup Digits
        Upto(lo, hi) == UNION {[1..k -> Alnum] : k \in lo..hi}
    IN  {p \o <<d>> \o q \o <<l>> :
            p \in Upto(1, 3), d \in Digits, q \in Upto(0, 3), l \in Letters}

\* C16: validate_callsign answers true exactly when the text, uppercased
\* and trimmed, is one to three alphanumerics, a digit, up to three
\* alphanumerics and a final letter, and false otherwise; the answer is the
\* same in upper case, in lower case and with whitespace around the text,
\* and the log button follows it once the frequency is valid.
C16_CallGrammar ==
    /\ validate_callsign(call_input) = (Strip(Upper(call_input)) \in CallLanguage)
    /\ validate_callsign(Upper(call_input)) = validate_callsign(call_input)
    /\ validate_callsign(Lower(call_input)) = validate_callsign(call_input)
    /\ validate_callsign(<<" ", "\t">> \o call_input \o <<"\n", " ">>)
          = validate_callsign(call_input)
    /\ validate_callsign(Strip(call_input)) = validate_callsign(call_input)
    /\ validate_frequency(freq_input) =>
          (log_button = (Strip(Upper(call_input)) \in CallLanguage))

\* a text in mixed case with whitespace around it is accepted, and the
\* longest form of a callsign is accepted
C16_Witness ==
    \/ /\ call_input = <<"A","7","b"," ">>
       /\ log_button
    \/ /\ call_input = <<"a","b","7","7","7","7","7","b","\n">>
       /\ log_button

\* the value written in the text is a number between 0.1 and 300000
WrittenInRange(text) ==
    LET p == ParseFloat(text)
    IN  /\ p.ok /\ p.kind = "num" /\ ~p.neg
        /\ DecLE(Decimal(<<1>>, 0), p.val)
        /\ DecLE(p.val, Decimal(<<3>>, 6))

\* the value written in the text is a number that float() rounds to the
\* double 0.1 from below or to 300000 from above
RoundsOntoBound(text) ==
    LET p == ParseFloat(text)
    IN  /\ p.ok /\ p.kind = "num" /\ ~p.neg
        /\ \/ DecLE(HalfwayBelowTenth, p.val) /\ DecLE(p.val, Decimal(<<1>>, 0))
           \/ DecLE(Decimal(<<3>>, 6), p.val) /\ DecLE(p.val, HalfwayAbove300000)

\* C17 as stated: validate_frequency answers true exactly when the text
\* parses as a number whose value v satisfies 0.1 <= v <= 300000, and
\* false for every other text.
C17_ExactRange ==
    validate_frequency(freq_input) = WrittenInRange(freq_input)

\* C17: validate_frequency answers true exactly when the text parses as a
\* number whose value is between 0.1 and 300000, or is so close to one of
\* the two bounds that float() rounds it onto the bound; it answers false
\* for every other text, and with a valid call the log button follows it.
C17_RoundedRange ==
    /\ validate_frequency(freq_input)
          = (WrittenInRange(freq_input) \/ RoundsOntoBound(freq_input))
    /\ validate_callsign(call_input) =>
          (log_button = (WrittenInRange(Strip(freq_input))
                            \/ RoundsOntoBound(Strip(freq_input))))

\* a text just below 0.1 is in the frequency input and the log button is
\* enabled
C17_Witness ==
    /\ freq_input = <<"0",".","0","9","9","9","9","9","9","9","9","9","9",
                      "9","9","9","9","9","9","9","9">>
    /\ ~WrittenInRange(freq_input)
    /\ log_button

\* the eight fields of an entry in the order of the record
EntryFields(q) ==
    << [tag |-> <<"C","A","L","L">>, value |-> q.call],
       [tag |-> <<"Q","S","O","_","D","A","T","E">>, value |-> q.date],
       [tag |-> <<"T","I","M","E","_","O","N">>, value |-> q.time],
       [tag |-> <<"B","A","N","D">>, value |-> q.band],
       [tag |-> <<"F","R","E","Q">>, value |-> q.freq],
       [tag |-> <<"M","O","D","E">>, value |-> q.mode],
       [tag |-> <<"R","S","T","_","S","E","N","T">>, value |-> q.rst_sent],
       [tag |-> <<"R","S","T","_","R","C","V","D">>, value |-> q.rst_recv] >>

\* the bytes of a record whose lengths count the bytes of the values
RECURSIVE WireRecord(_)
WireRecord(fields) ==
    IF fields = <<>> THEN <<"<","E","O","R",">">>
    ELSE LET f == Head(fields)
         IN  <<"<">> \o f.tag \o <<":">> \o NatToStr(Len(Utf8(f.value)))
             \o <<">">> \o Utf8(f.value) \o WireRecord(Tail(fields))

\* C14: the datagram of every entry sent is the fields CALL, QSO_DATE,
\* TIME_ON, BAND, FREQ, MODE, RST_SENT, RST_RCVD in this order, each as
\* <TAG:LENGTH>VALUE where LENGTH is the number of bytes of VALUE as it is
\* transmitted, with nothing between the fields, and <EOR> at the end.
C14_ByteLengths ==
    \A i \in DOMAIN datagrams :
        datagrams[i].payload = WireRecord(EntryFields(datagrams[i].entry))

\* first position of a character in a text, 0 if it is not there
First(s, c) ==
    IF \E i \in DOMAIN s : s[i] = c
    THEN CHOOSE i \in DOMAIN s : s[i] = c /\ \A j \in 1..(i - 1) : s[j] # c
    ELSE 0

\* a reader of the record: the tag up to the colon, the declared length up
\* to the closing bracket, then that many characters, field after field
\* until <EOR>
RECURSIVE ReadRecord(_)
ReadRecord(s) ==
    LET c == First(s, ":")
        g == First(s, ">")
        damaged == <<[tag |-> <<"?">>, value |-> <<>>]>>
    IN  IF s = <<"<","E","O","R",">">> THEN <<>>
        ELSE IF s = <<>> \/ s[1] # "<" \/ c = 0 \/ g < c THEN damaged
        ELSE LET digits == SubSeq(s, c + 1, g - 1)
                 n == DigitsVal([i \in DOMAIN digits |-> DigitVal(digits[i])])
             IN  IF digits = <<>> \/ \E i \in DOMAIN digits : ~IsDigit(digits[i])
                    \/ g + n > Len(s)
                 THEN damaged
                 ELSE <<[tag |-> SubSeq(s, 2, c - 1),
                         value |-> SubSeq(s, g + 1, g + n)]>>
                      \o ReadRecord(SubSeq(s, g + n + 1, Len(s)))

\* C15: reading the record made by create_adif_entry, tag by tag, each
\* with its declared length and that many characters of value, gives back
\* the eight tags in order with exactly the values of the entry, also for
\* empty values and values that hold '<', '>' or ':'.
C15_RoundTrip ==
    \A i \in DOMAIN datagrams :
        ReadRecord(datagrams[i].adif) = EntryFields(datagrams[i].entry)

\* an entry went out with an empty report, a report holding '<', ':' and
\* '>', and another with a report that is itself a tag and a character
\* outside ASCII in the frequency
C15_Witness ==
    /\ \E i \in DOMAIN datagrams :
          /\ datagrams[i].entry.rst_sent = <<>>
          /\ {"<", ":", ">"} \subseteq Range(datagrams[i].entry.rst_recv)
    /\ \E i \in DOMAIN datagrams :
          /\ datagrams[i].entry.rst_sent = <<"<","E","O","R",">">>
          /\ "U+0665" \in Range(datagrams[i].entry.freq)

\* the category the reason of a failed query names: by its label, by the
\* status code or by the message of the exception it quotes
QueryCategory(reason) ==
    IF Category(reason) # "none" THEN Category(reason)
    ELSE IF Carries(reason, <<"str(ParseError)">>) THEN "ProtocolError"
    ELSE IF Carries(reason, <<"str(RequestException)">>)
              \/ Carries(reason, <<"HTTP">>)
    THEN "TransportError"
    ELSE "none"

\* C11: in the Query step a reply with a status other than 200 is reported
\* as a transport error that carries the status code, and not as 'no data
\* found'; a malformed XML body is reported as a protocol error; a network
\* failure is reported as a transport error.
C11_QueryFailureCategories ==
    \A i \in DOMAIN events :
        LET e == events[i]
            t == threads[e.th]
            r == t.query_response
        IN  (r # NoReply /\ t.pc = "done") =>
               /\ (r.net /\ r.status # 200) =>
                     /\ e.sig = "lookup_error"
                     /\ QueryCategory(e.reason) = "TransportError"
                     /\ Carries(e.reason, NatToStr(r.status))
                     /\ ~Carries(e.reason, <<"No data found for">>)
               /\ (r.net /\ r.status = 200 /\ ~r.xml) =>
                     /\ e.sig = "lookup_error"
                     /\ QueryCategory(e.reason) = "ProtocolError"
               /\ ~r.net =>
                     /\ e.sig = "lookup_error"
                     /\ QueryCategory(e.reason) = "TransportError"

\* C12: when the reply of the query endpoint holds no station field but an
\* Error or a Message element, the lookup fails and the reason given with
\* lookup_error carries the text of that element.
C12_ServerTextReported ==
    \A i \in DOMAIN events :
        LET e == events[i]
            t == threads[e.th]
            r == t.query_response
        IN  (r # NoReply /\ t.pc = "done" /\ Parsed(r)
               /\ (\A k \in DOMAIN r.body : r.body[k].text = <<>>)) =>
               \A k \in DOMAIN Notes(r) :
                   /\ e.sig = "lookup_error"
                   /\ Carries(e.reason, Notes(r)[k].text)

\* the children of the station record that have text
WithText(r) == {k \in DOMAIN r.body : r.body[k].text # <<>>}

\* whether the lookup succeeds, and how it fails without a field
SucceedsIffSomeText(e, r) ==
    /\ (e.sig = "lookup_complete") <=> (WithText(r) # {})
    /\ (WithText(r) = {} /\ Notes(r) = <<>>) =>
          /\ e.sig = "lookup_error"
          /\ Carries(e.reason, <<"No data found for">>)

\* C13 as stated: for a well-formed reply with status 200 the lookup
\* succeeds exactly when some child of the station record has text; the
\* mapping has one key for each such child, named by the tag without its
\* namespace and holding that child's trimmed text; a child without text
\* is no key; with no such child and no error element the lookup fails
\* with 'no data found'.
C13_OneKeyPerChild ==
    \A i \in DOMAIN events :
        LET e == events[i]
            t == threads[e.th]
            r == t.query_response
        IN  (r # NoReply /\ t.pc = "done" /\ Parsed(r)) =>
               /\ SucceedsIffSomeText(e, r)
               /\ e.sig = "lookup_complete" =>
                     /\ Len(e.data) = Cardinality(WithText(r))
                     /\ \A k \in WithText(r) :
                           /\ DictHas(e.data, r.body[k].name)
                           /\ DictGet(e.data, r.body[k].name)
                                 = Strip(r.body[k].text)
                     /\ \A k \in DOMAIN r.body \ WithText(r) :
                           ~DictHas(e.data, r.body[k].name)

\* C13: for a well-formed reply with status 200 the lookup succeeds
\* exactly when some child of the station record has text; the keys of the
\* mapping are the names, without namespace, of the children that have
\* text, each name once; the value of a key is the trimmed text of the
\* last child with text that has this name; with no such child and no
\* error element the lookup fails with 'no data found'.
C13_LastChildWins ==
    \A i \in DOMAIN events :
        LET e == events[i]
            t == threads[e.th]
            r == t.query_response
            names == {r.body[k].name : k \in WithText(r)}
            last(n) == CHOOSE k \in WithText(r) :
                          /\ r.body[k].name = n
                          /\ \A j \in WithText(r) :
                                r.body[j].name = n => j <= k
        IN  (r # NoReply /\ t.pc = "done" /\ Parsed(r)) =>
               /\ SucceedsIffSomeText(e, r)
               /\ e.sig = "lookup_complete" =>
                     /\ {e.data[j][1] : j \in DOMAIN e.data} = names
                     /\ Len(e.data) = Cardinality(names)
                     /\ \A n \in names :
                           DictGet(e.data, n) = Strip(r.body[last(n)].text)

\* a mapping was emitted for a reply with two children of one name and a
\* child without text, and another lookup failed for a reply without
\* fields
C13_Witness ==
    /\ \E i \in DOMAIN events :
          /\ events[i].sig = "lookup_complete"
          /\ threads[events[i].th].query_response = QueryTwice
    /\ \E i \in DOMAIN events :
          /\ events[i].sig = "lookup_error"
          /\ threads[events[i].th].query_response = QueryReply(<<>>)

\* the event loop runs the slot of the due debounce timer in this step
TimerFires ==
    /\ lookup_timer.active /\ lookup_timer.left = 0
    /\ ~lookup_timer'.active

\* C21: a worker started by the debounce timer is for the trimmed text
\* that is in the call input when the timer fires (QRZLookupThread keeps
\* it in upper case), and this text passes validate_callsign; when the
\* text is empty or fails validate_callsign, or a credential is empty, the
\* firing timer creates no worker, so no request is made.
C21_WorkerForCurrentText ==
    [][/\ DebounceStart =>
            /\ TimerFires
            /\ Strip(call_input) # <<>>
            /\ validate_callsign(Strip(call_input))
            /\ threads'[nThreads'].callsign = Upper(Strip(call_input))
            /\ threads'[nThreads'].pc = "auth"
            /\ current_lookup_thread' = nThreads'
       /\ (TimerFires /\ (\/ Strip(call_input) = <<>>
                           \/ ~validate_callsign(Strip(call_input))
                           \/ Strip(config.qrz_username) = <<>>
                           \/ Strip(config.qrz_password) = <<>>)) =>
            /\ threads' = threads
            /\ nThreads' = nThreads
            /\ current_lookup_thread' = current_lookup_thread]_vars

\* the timer has started a worker for the text typed in lower case with a
\* trailing blank, and later it has fired with that text and without
\* credentials and started none
C21_Witness ==
    /\ nThreads = 1
    /\ threads[1].kind = "auto"
    /\ threads[1].callsign = <<"W","1","A","W">>
    /\ call_input = <<"w","1","a","w"," ">>
    /\ lookup_status_label = <<"QRZ credentials required">>
    /\ ~lookup_timer.active

\* C22: the photo display is set only by the reply to a photo request of
\* a lookup for the callsign that is in the input: once the callsign
\* input has changed, the reply to a request that was issued for the
\* callsign then in the input leaves the display at 'No Photo'.
C22_PhotoForCurrentCall ==
    [][Len(photo_replies') < Len(photo_replies) =>
          \E i \in DOMAIN photo_replies :
              LET reply == photo_replies[i]
              IN  /\ photo_replies' = RemoveAt(photo_replies, i)
                  /\ reply.input = threads[reply.src].callsign =>
                        \/ reply.input = Strip(Upper(call_input))
                        \/ photo_label' = "No Photo"]_vars

====
